---- MODULE Spec2Model ----
(***************************************************************************)
(* A model of the Hot Wheels storefront bot (src/main.py): the message     *)
(* handlers registered on the dispatcher, the per-user session map         *)
(* user_data, the image cache, the FSM storage and the catalog/cart store. *)
(* One action per handler; the inputs are the incoming update and the      *)
(* outcomes of the calls to the transport, the network and the store.      *)
(***************************************************************************)
EXTENDS Integers, Sequences, FiniteSets, TLC

\* ------------------------------------------------------------------ bounds

\* Largest product id the store hands out.
MaxProductId == 3

\* Number of message ids of one chat: a rendered unit gets an id that no
\* message on screen and no session refers to.
MaxMsgId == 3

\* Largest number of thumbnails given to the collage composer.
MaxImages == 4

\* Largest number of urls in one call of create_combined_message that is
\* followed task by task.
MaxBatch == 3

\* ---------------------------------------------------------------- constants

\* ADMIN_ID = os.getenv("ADMIN_ID")
ADMIN_ID == 1

Users == {1, 2}

\* The users who are not the operator.
Customers == Users \ {ADMIN_ID}

ProductIds == 1..MaxProductId

\* Python's None where a text is expected (message.text of a photo message).
None == <<"None">>

\* Categories are kept as the "_"-separated segments of their tag, so that
\* str.split('_') on a callback payload is modelled by what it does.
CatMain == <<"main">>
CatSpecial == <<"special">>
CatPremium == <<"premium">>
CatZamak == <<"zamak">>
CatTeamTransport == <<"team", "transport">>

Categories == {CatMain, CatSpecial, CatPremium, CatZamak, CatTeamTransport}

\* Texts are sequences of atoms: single characters, or whole words that hold
\* no digit, no sign and no whitespace.
MenuMain == <<"Mein modeli">>
MenuSpecial == <<"Spec. serii">>
MenuPremium == <<"Premium modeli">>
MenuZamak == <<"Zamak modeli">>
MenuTeam == <<"Tim transport">>
MenuCart == <<"Korzina">>
MenuHelp == <<"Pomosch">>
CancelOrder == <<"Otmenit", " ", "zakaz">>

\* category_map of show_category.
MenuCategoryMap ==
    (MenuMain :> CatMain) @@ (MenuSpecial :> CatSpecial)
    @@ (MenuPremium :> CatPremium) @@ (MenuZamak :> CatZamak)
    @@ (MenuTeam :> CatTeamTransport)

\* category_map of process_category.
AdminMain == <<"Mein modeli (main)">>
AdminSpecial == <<"Spec. serii (special)">>
AdminPremium == <<"Premium modeli (premium)">>
AdminZamak == <<"Zamak modeli (zamak)">>
AdminTeam == <<"Tim transport (team_transport)">>

AdminCategoryMap ==
    (AdminMain :> CatMain) @@ (AdminSpecial :> CatSpecial)
    @@ (AdminPremium :> CatPremium) @@ (AdminZamak :> CatZamak)
    @@ (AdminTeam :> CatTeamTransport)

\* ------------------------------------------------------------ text helpers

Digits == {"0", "1", "2", "3", "4", "5", "6", "7", "8", "9"}

DigitVal ==
    ("0" :> 0) @@ ("1" :> 1) @@ ("2" :> 2) @@ ("3" :> 3) @@ ("4" :> 4)
    @@ ("5" :> 5) @@ ("6" :> 6) @@ ("7" :> 7) @@ ("8" :> 8) @@ ("9" :> 9)

DigitChar == <<"0", "1", "2", "3", "4", "5", "6", "7", "8", "9">>

\* str.split(): the maximal runs of non-whitespace atoms, in order.
RECURSIVE SplitFrom(_, _, _)
SplitFrom(s, i, cur) ==
    IF i > Len(s)
    THEN IF cur = <<>> THEN <<>> ELSE <<cur>>
    ELSE IF s[i] = " "
         THEN IF cur = <<>>
              THEN SplitFrom(s, i + 1, <<>>)
              ELSE <<cur>> \o SplitFrom(s, i + 1, <<>>)
         ELSE SplitFrom(s, i + 1, Append(cur, s[i]))

Split(s) == SplitFrom(s, 1, <<>>)

RECURSIVE DigitsValue(_, _)
DigitsValue(s, acc) ==
    IF s = <<>> THEN acc ELSE DigitsValue(Tail(s), 10 * acc + DigitVal[Head(s)])

AllDigits(s) == s # <<>> /\ \A i \in 1..Len(s) : s[i] \in Digits

\* int(text) for a str: an optional sign followed by decimal digits, anything
\* else raises ValueError.
IntParses(s) ==
    \/ AllDigits(s)
    \/ s # <<>> /\ Head(s) \in {"+", "-"} /\ AllDigits(Tail(s))

IntValue(s) ==
    IF Head(s) = "-" THEN 0 - DigitsValue(Tail(s), 0)
    ELSE IF Head(s) = "+" THEN DigitsValue(Tail(s), 0)
    ELSE DigitsValue(s, 0)

\* str(n) of an int.
RECURSIVE NatToStr(_)
NatToStr(n) ==
    IF n < 10 THEN <<DigitChar[n + 1]>>
    ELSE Append(NatToStr(n \div 10), DigitChar[(n % 10) + 1])

IntToStr(n) == IF n < 0 THEN <<"-">> \o NatToStr(0 - n) ELSE NatToStr(n)

\* ---------------------------------------------------------------- updates

\* An incoming message: kind is "text", "photo" or "contact"; text is None
\* unless kind is "text".
TextMsg(t) == [kind |-> "text", text |-> t, file_id |-> "", phone |-> None]
PhotoMsg(f) == [kind |-> "photo", text |-> None, file_id |-> f, phone |-> None]
ContactMsg(p) == [kind |-> "contact", text |-> None, file_id |-> "", phone |-> p]

\* A press of an inline button, with the button's callback_data.
CallbackQuery(data) == [kind |-> "callback", text |-> data, file_id |-> "", phone |-> None]

\* Command("x"): a text whose first token is /x.
IsCommand(m, cmd) == m.kind = "text" /\ Head(m.text) = cmd

\* The dispatcher hands a message to the first registered handler whose
\* filters pass, in registration order; a handler registered without a state
\* filter takes the message in every state.
Route(st, m) ==
    IF IsCommand(m, "/start") THEN "cmd_start"
    ELSE IF m.kind = "text" /\ m.text \in DOMAIN MenuCategoryMap THEN "show_category"
    ELSE IF m.kind = "text" /\ m.text = MenuCart THEN "handle_cart_message"
    ELSE IF st = "waiting_phone" /\ m.kind \in {"contact", "text"} THEN "process_phone"
    ELSE IF st = "waiting_payment_info" THEN "process_payment_info"
    ELSE IF m.kind = "text" /\ m.text = MenuHelp THEN "show_help"
    ELSE IF IsCommand(m, "/add") THEN "cmd_add"
    ELSE IF st = "waiting_photo" /\ m.kind = "photo" THEN "process_photo"
    ELSE IF st = "waiting_name" THEN "process_name"
    ELSE IF st = "waiting_price" THEN "process_price"
    ELSE IF st = "waiting_description" THEN "process_description"
    ELSE IF st = "waiting_category" THEN "process_category"
    ELSE IF IsCommand(m, "/delete") THEN "cmd_delete"
    ELSE IF st = "waiting_id" THEN "process_delete_id"
    ELSE IF IsCommand(m, "/myid") THEN "cmd_myid"
    ELSE "unhandled"


\* ------------------------------------------------------------------- state

VARIABLES
    products,     \* catalog store: product id -> Product row
    cart,         \* cart store: <<user_id, product_id>> -> number of Cart rows
    user_data,    \* user_data: user id -> session record, or NoSession
    image_cache,  \* image_cache: url -> thumbnail
    fsm_state,    \* FSM storage: user id -> state
    fsm_data,     \* FSM storage: user id -> accumulated step data
    chat,         \* user id -> ids of the rendered units shown in the chat
    batch,        \* the call of create_combined_message in progress, task by task
    calls,        \* the handler coroutines followed await by await
    last          \* the handler that ran last, for whom, and what it emitted

vars ==
    <<products, cart, user_data, image_cache, fsm_state, fsm_data, chat,
      batch, calls, last>>

NoSession == [category |-> <<>>, products |-> <<>>, last_msg_ids |-> <<>>,
              present |-> FALSE]

NoData == [k \in {} |-> None]

\* No call of create_combined_message is followed task by task.
NoBatch == [phase |-> "none", urls |-> <<>>, status |-> <<>>]

\* The handler coroutines that are followed await by await: two at a time.
Slots == {1, 2}

\* No coroutine in the slot.
NoCall ==
    [h |-> "none", u |-> 0, pc |-> "none", in |-> <<>>, category |-> <<>>,
     ids |-> <<>>, previous |-> <<>>, out |-> <<>>]

NoCalls == [s \in Slots |-> NoCall]

\* state.update_data(key=value)
UpdateData(d, key, value) ==
    [k \in DOMAIN d \cup {key} |-> IF k = key THEN value ELSE d[k]]

ProductFieldsCrossed(category, name, price, photo_id, description) ==
    [category |-> category, name |-> description, price |-> price,
     photo_id |-> photo_id, description |-> name]

Product(category, name, price, photo_id, description) ==
    [category |-> category, name |-> name, price |-> price,
     photo_id |-> photo_id, description |-> description]

\* The catalog the store holds when the process starts.
InitProducts ==
    (1 :> Product(CatMain, <<"A">>, 100, "ph1", <<"d">>))
    @@ (2 :> Product(CatMain, <<"B">>, 250, "ph2", <<"d">>))

\* What a handler leaves behind in `last`: its name, the user and the update
\* it handled, and what it emitted.
Ran(h, u, in, out) == [h |-> h, u |-> u, in |-> in, out |-> out]

Init ==
    /\ products = InitProducts
    /\ cart = [k \in Users \X ProductIds |-> 0]
    /\ user_data = [u \in Users |-> NoSession]
    /\ image_cache = [k \in {} |-> None]
    /\ fsm_state = [u \in Users |-> "idle"]
    /\ fsm_data = [u \in Users |-> NoData]
    /\ chat = [u \in Users |-> {}]
    /\ calls = NoCalls
    /\ batch = NoBatch
    /\ last = Ran("start", 0, TextMsg(<<>>), <<>>)

\* ------------------------------------------------------------------- store

\* session.query(Cart).filter(Cart.user_id == user_id).all(): the products
\* of the user's Cart rows.
CartItems(u) == {p \in ProductIds : cart[<<u, p>>] > 0}

RECURSIVE SumPrices(_, _)
SumPrices(u, ps) ==
    IF ps = {} THEN 0
    ELSE LET p == CHOOSE x \in ps : TRUE
         IN  cart[<<u, p>>] * products[p].price + SumPrices(u, ps \ {p})

\* session.query(Cart).filter(Cart.user_id == user_id).delete()
CartWithout(u) == [k \in DOMAIN cart |-> IF k[1] = u THEN 0 ELSE cart[k]]


\* ------------------------------------------------------------- cart, order

\* callback_data of the inline buttons, as its "_"-separated segments.
AddData(p) == <<"add", IntToStr(p)>>
ProductData(p) == <<"product", IntToStr(p)>>
RemoveData(p) == <<"remove", IntToStr(p)>>
BackToListData(category) == <<"back", "to", "list">> \o category

\* int(callback.data.split('_')[1])
CallbackId(data) == IntValue(data[2])

\* add_to_cart: a Cart row is added unless the user already has one for the
\* product; the product itself is not looked up.
AddToCartUnchecked(u, data) ==
    LET product_id == CallbackId(data)
    IN  /\ data[1] = "add"
        /\ cart' = [cart EXCEPT ![<<u, product_id>>] = @ + 1]
        /\ last' = Ran("add_to_cart", u, CallbackQuery(data), <<<<"added">>>>)
        /\ UNCHANGED <<products, user_data, image_cache, fsm_state, fsm_data, chat, batch, calls>>

AddToCart(u, data) ==
    LET product_id == CallbackId(data)
        exists == cart[<<u, product_id>>] > 0
    IN  /\ data[1] = "add"
        /\ cart' = IF exists THEN cart
                   ELSE [cart EXCEPT ![<<u, product_id>>] = @ + 1]
        /\ last' = Ran("add_to_cart", u, CallbackQuery(data),
                       <<IF exists THEN <<"already_in_cart">> ELSE <<"added">>>>)
        /\ UNCHANGED <<products, user_data, image_cache, fsm_state, fsm_data, chat, batch, calls>>

\* clear_cart
ClearCart(u) ==
    /\ cart' = CartWithout(u)
    /\ last' = Ran("clear_cart", u, CallbackQuery(<<"clear", "cart">>), <<<<"cart_cleared">>, <<"cart_empty">>>>)
    /\ UNCHANGED <<products, user_data, image_cache, fsm_state, fsm_data, chat, batch, calls>>

\* start_checkout
StartCheckout(u) ==
    /\ fsm_state' = [fsm_state EXCEPT ![u] = "waiting_phone"]
    /\ last' = Ran("start_checkout", u, CallbackQuery(<<"checkout">>), <<<<"ask_contact">>>>)
    /\ UNCHANGED <<products, cart, user_data, image_cache, fsm_data, chat, batch, calls>>

\* process_phone
ProcessPhone(u, m) ==
    /\ Route(fsm_state[u], m) = "process_phone"
    /\ IF m.kind = "text" /\ m.text = CancelOrder
       THEN /\ fsm_state' = [fsm_state EXCEPT ![u] = "idle"]
            /\ fsm_data' = [fsm_data EXCEPT ![u] = NoData]
            /\ last' = Ran("process_phone", u, m, <<<<"order_cancelled">>>>)
       ELSE LET contact == IF m.kind = "contact" THEN m.phone ELSE m.text
            IN  /\ fsm_data' = [fsm_data EXCEPT ![u] = UpdateData(@, "contact", contact)]
                /\ fsm_state' = [fsm_state EXCEPT ![u] = "waiting_payment_info"]
                /\ last' = Ran("process_phone", u, m, <<<<"ask_payment">>>>)
    /\ UNCHANGED <<products, cart, user_data, image_cache, chat, batch, calls>>

\* What a handler emitted: a sequence of tuples <<kind, ...>>.
Emitted(out, kind) == \E i \in 1..Len(out) : out[i][1] = kind

\* "if not cart_items": the order is aborted when the user has no Cart row.
NoCartItemsSkipped(cart_items) == FALSE

NoCartItems(cart_items) == cart_items = {}

\* process_payment_info.  store_ok: the store answers the queries and the
\* commit; user_ok, admin_ok: the transport accepts a message to the user,
\* to the operator.  The try block runs up to its first exception; the except
\* block answers the user, the finally block clears the state.
ProcessPaymentInfo(u, m, store_ok, user_ok, admin_ok) ==
    LET cart_items == CartItems(u)
        missing == {p \in cart_items : p \notin DOMAIN products}
        total == SumPrices(u, cart_items)
        confirmed == <<"order_confirmed", total>>
        notified == <<"notify_admin", total>>
        body ==
            IF ~store_ok
            THEN [cleared |-> FALSE, out |-> <<>>, raised |-> TRUE]
            ELSE IF NoCartItems(cart_items)
            THEN IF user_ok
                 THEN [cleared |-> FALSE, out |-> <<<<"cart_empty">>>>, raised |-> FALSE]
                 ELSE [cleared |-> FALSE, out |-> <<>>, raised |-> TRUE]
            ELSE IF missing # {}
            THEN [cleared |-> FALSE, out |-> <<>>, raised |-> TRUE]
            ELSE IF ~user_ok
            THEN [cleared |-> TRUE, out |-> <<>>, raised |-> TRUE]
            ELSE IF ~admin_ok
            THEN [cleared |-> TRUE, out |-> <<confirmed>>, raised |-> TRUE]
            ELSE [cleared |-> TRUE, out |-> <<confirmed, notified>>, raised |-> FALSE]
    IN  /\ Route(fsm_state[u], m) = "process_payment_info"
        /\ cart' = IF body.cleared THEN CartWithout(u) ELSE cart
        /\ fsm_state' = [fsm_state EXCEPT ![u] = "idle"]
        /\ fsm_data' = [fsm_data EXCEPT ![u] = NoData]
        /\ last' = Ran("process_payment_info", u, m,
                       IF body.raised /\ user_ok
                       THEN Append(body.out, <<"order_failed">>)
                       ELSE body.out)
        /\ UNCHANGED <<products, user_data, image_cache, chat, batch, calls>>

\* ------------------------------------------------------------ plain replies

\* cmd_start, show_help, cmd_myid and back_to_menu answer and touch nothing.
CmdStart(u, m) ==
    /\ Route(fsm_state[u], m) = "cmd_start"
    /\ last' = Ran("cmd_start", u, m, <<<<"welcome">>>>)
    /\ UNCHANGED <<products, cart, user_data, image_cache, fsm_state, fsm_data, chat, batch, calls>>

ShowHelp(u, m) ==
    /\ Route(fsm_state[u], m) = "show_help"
    /\ last' = Ran("show_help", u, m, <<<<"help">>>>)
    /\ UNCHANGED <<products, cart, user_data, image_cache, fsm_state, fsm_data, chat, batch, calls>>

CmdMyId(u, m) ==
    /\ Route(fsm_state[u], m) = "cmd_myid"
    /\ last' = Ran("cmd_myid", u, m, <<<<"your_id", u>>>>)
    /\ UNCHANGED <<products, cart, user_data, image_cache, fsm_state, fsm_data, chat, batch, calls>>

BackToMenu(u) ==
    /\ last' = Ran("back_to_menu", u, CallbackQuery(<<"back", "to", "menu">>), <<<<"choose_category">>>>)
    /\ UNCHANGED <<products, cart, user_data, image_cache, fsm_state, fsm_data, chat, batch, calls>>

\* ------------------------------------------------------------ catalog: add

\* cmd_add
CmdAddUngated(u, m) ==
    /\ Route(fsm_state[u], m) = "cmd_add"
    /\ last' = Ran("cmd_add", u, m, <<<<"ask_photo">>>>)
    /\ fsm_state' = [fsm_state EXCEPT ![u] = "waiting_photo"]
    /\ UNCHANGED <<products, cart, user_data, image_cache, fsm_data, chat, batch, calls>>

CmdAdd(u, m) ==
    /\ Route(fsm_state[u], m) = "cmd_add"
    /\ IF u # ADMIN_ID
       THEN /\ last' = Ran("cmd_add", u, m, <<<<"admin_only">>>>)
            /\ UNCHANGED fsm_state
       ELSE /\ last' = Ran("cmd_add", u, m, <<<<"ask_photo">>>>)
            /\ fsm_state' = [fsm_state EXCEPT ![u] = "waiting_photo"]
    /\ UNCHANGED <<products, cart, user_data, image_cache, fsm_data, chat, batch, calls>>

\* process_photo
ProcessPhoto(u, m) ==
    /\ Route(fsm_state[u], m) = "process_photo"
    /\ fsm_data' = [fsm_data EXCEPT ![u] = UpdateData(@, "photo_id", m.file_id)]
    /\ fsm_state' = [fsm_state EXCEPT ![u] = "waiting_name"]
    /\ last' = Ran("process_photo", u, m, <<<<"ask_name">>>>)
    /\ UNCHANGED <<products, cart, user_data, image_cache, chat, batch, calls>>

\* process_name
ProcessName(u, m) ==
    /\ Route(fsm_state[u], m) = "process_name"
    /\ fsm_data' = [fsm_data EXCEPT ![u] = UpdateData(@, "name", m.text)]
    /\ fsm_state' = [fsm_state EXCEPT ![u] = "waiting_price"]
    /\ last' = Ran("process_name", u, m, <<<<"ask_price">>>>)
    /\ UNCHANGED <<products, cart, user_data, image_cache, chat, batch, calls>>

\* process_price: int(message.text) raises ValueError for a text that is no
\* integer, which the handler answers, and TypeError for None, which it does
\* not catch.
ProcessPrice(u, m) ==
    /\ Route(fsm_state[u], m) = "process_price"
    /\ IF m.kind # "text"
       THEN /\ last' = Ran("process_price", u, m, <<<<"raised", "TypeError">>>>)
            /\ UNCHANGED <<fsm_state, fsm_data>>
       ELSE IF ~IntParses(m.text)
       THEN /\ last' = Ran("process_price", u, m, <<<<"price_must_be_number">>>>)
            /\ UNCHANGED <<fsm_state, fsm_data>>
       ELSE /\ fsm_data' = [fsm_data EXCEPT ![u] = UpdateData(@, "price", IntValue(m.text))]
            /\ fsm_state' = [fsm_state EXCEPT ![u] = "waiting_description"]
            /\ last' = Ran("process_price", u, m, <<<<"ask_description">>>>)
    /\ UNCHANGED <<products, cart, user_data, image_cache, chat, batch, calls>>

\* process_description
ProcessDescription(u, m) ==
    /\ Route(fsm_state[u], m) = "process_description"
    /\ fsm_data' = [fsm_data EXCEPT ![u] = UpdateData(@, "description", m.text)]
    /\ fsm_state' = [fsm_state EXCEPT ![u] = "waiting_category"]
    /\ last' = Ran("process_description", u, m, <<<<"ask_category">>>>)
    /\ UNCHANGED <<products, cart, user_data, image_cache, chat, batch, calls>>

\* The id the store gives a new row: one more than the largest id in use.
NewProductId ==
    IF DOMAIN products = {} THEN 1
    ELSE 1 + CHOOSE x \in DOMAIN products : \A y \in DOMAIN products : y <= x

\* process_category.  store_ok: the store takes the new row.
ProcessCategory(u, m, store_ok) ==
    LET data == fsm_data[u]
        complete == {"name", "price", "photo_id", "description"} \subseteq DOMAIN data
    IN  /\ Route(fsm_state[u], m) = "process_category"
        /\ IF m.text \notin DOMAIN AdminCategoryMap
           THEN /\ last' = Ran("process_category", u, m, <<<<"choose_listed_category">>>>)
                /\ UNCHANGED <<products, fsm_state, fsm_data>>
           ELSE /\ IF complete /\ store_ok
                   THEN /\ NewProductId \in ProductIds
                        /\ products' = products @@
                            (NewProductId :> Product(AdminCategoryMap[m.text], data["name"],
                                           data["price"], data["photo_id"],
                                           data["description"]))
                        /\ last' = Ran("process_category", u, m, <<<<"product_added", NewProductId>>>>)
                   ELSE /\ last' = Ran("process_category", u, m, <<<<"save_failed">>>>)
                        /\ UNCHANGED products
                /\ fsm_state' = [fsm_state EXCEPT ![u] = "idle"]
                /\ fsm_data' = [fsm_data EXCEPT ![u] = NoData]
        /\ UNCHANGED <<cart, user_data, image_cache, chat, batch, calls>>

\* --------------------------------------------------------- catalog: delete

\* cmd_delete
CmdDelete(u, m) ==
    /\ Route(fsm_state[u], m) = "cmd_delete"
    /\ IF u # ADMIN_ID
       THEN /\ last' = Ran("cmd_delete", u, m, <<<<"admin_only">>>>)
            /\ UNCHANGED fsm_state
       ELSE IF DOMAIN products = {}
       THEN /\ last' = Ran("cmd_delete", u, m, <<<<"nothing_to_delete">>>>)
            /\ UNCHANGED fsm_state
       ELSE /\ last' = Ran("cmd_delete", u, m, <<<<"ask_ids">>>>)
            /\ fsm_state' = [fsm_state EXCEPT ![u] = "waiting_id"]
    /\ UNCHANGED <<products, cart, user_data, image_cache, fsm_data, chat, batch, calls>>

\* The loop of process_delete_id over the tokens ids[i..], with the rows
\* marked for deletion so far, the names reported deleted and the tokens
\* reported not found.  autoflush: the session flushes a pending delete
\* before the next query, so a row marked for deletion is not found again.
RECURSIVE DeleteLoopUntilBadToken(_, _, _, _, _, _)
DeleteLoopUntilBadToken(ids, i, marked, deleted_products, not_found_ids, autoflush) ==
    IF i > Len(ids)
    THEN [marked |-> marked, deleted_products |-> deleted_products,
          not_found_ids |-> not_found_ids]
    ELSE IF ~IntParses(ids[i])
    THEN [marked |-> marked, deleted_products |-> deleted_products,
          not_found_ids |-> Append(not_found_ids, ids[i])]
    ELSE LET product_id == IntValue(ids[i])
             found == /\ product_id \in DOMAIN products
                      /\ ~(autoflush /\ product_id \in marked)
         IN  IF found
             THEN DeleteLoopUntilBadToken(ids, i + 1, marked \cup {product_id},
                                          Append(deleted_products,
                                                 products[product_id].name),
                                          not_found_ids, autoflush)
             ELSE DeleteLoopUntilBadToken(ids, i + 1, marked, deleted_products,
                                          Append(not_found_ids, IntToStr(product_id)),
                                          autoflush)

RECURSIVE DeleteLoop(_, _, _, _, _, _)
DeleteLoop(ids, i, marked, deleted_products, not_found_ids, autoflush) ==
    IF i > Len(ids)
    THEN [marked |-> marked, deleted_products |-> deleted_products,
          not_found_ids |-> not_found_ids]
    ELSE LET id_str == ids[i]
         IN  IF ~IntParses(id_str)
             THEN DeleteLoop(ids, i + 1, marked, deleted_products,
                             Append(not_found_ids, id_str), autoflush)
             ELSE LET product_id == IntValue(id_str)
                      found == /\ product_id \in DOMAIN products
                               /\ ~(autoflush /\ product_id \in marked)
                  IN  IF found
                      THEN DeleteLoop(ids, i + 1, marked \cup {product_id},
                                      Append(deleted_products, products[product_id].name),
                                      not_found_ids, autoflush)
                      ELSE DeleteLoop(ids, i + 1, marked, deleted_products,
                                      Append(not_found_ids, IntToStr(product_id)),
                                      autoflush)

\* process_delete_id.  store_ok: the store takes the commit.  A message
\* without text raises at message.text.split(), before the session is made:
\* the handler answers the error, and session.close() in the finally clause
\* raises UnboundLocalError, so that state.clear() after it is not reached.
ProcessDeleteId(u, m, store_ok, autoflush) ==
    LET r == DeleteLoop(Split(m.text), 1, {}, <<>>, <<>>, autoflush)
        report ==
            (IF r.deleted_products # <<>>
             THEN <<<<"deleted", r.deleted_products>>>> ELSE <<>>)
            \o (IF r.not_found_ids # <<>>
                THEN <<<<"not_found", r.not_found_ids>>>> ELSE <<>>)
    IN  /\ Route(fsm_state[u], m) = "process_delete_id"
        /\ IF m.kind # "text"
           THEN /\ last' = Ran("process_delete_id", u, m,
                               <<<<"delete_failed">>, <<"raised", "UnboundLocalError">>>>)
                /\ UNCHANGED <<products, fsm_state, fsm_data>>
           ELSE /\ IF ~store_ok
                   THEN /\ last' = Ran("process_delete_id", u, m, <<<<"delete_failed">>>>)
                        /\ UNCHANGED products
                   ELSE /\ products' = [p \in DOMAIN products \ r.marked |-> products[p]]
                        /\ last' = Ran("process_delete_id", u, m,
                                       IF report = <<>> THEN <<<<"nothing_deleted">>>>
                                       ELSE report)
                /\ fsm_state' = [fsm_state EXCEPT ![u] = "idle"]
                /\ fsm_data' = [fsm_data EXCEPT ![u] = NoData]
        /\ UNCHANGED <<cart, user_data, image_cache, chat, batch, calls>>

\* -------------------------------------------------------- render pipeline

MsgIds == 1..MaxMsgId

Range(f) == {f[i] : i \in DOMAIN f}

RECURSIVE Ascending(_)
Ascending(S) ==
    IF S = {} THEN <<>>
    ELSE LET lo == CHOOSE x \in S : \A y \in S : x <= y
         IN  <<lo>> \o Ascending(S \ {lo})

\* session.query(Product).filter(Product.category == category).all(): the
\* ids of the rows of the category, in the order the store returns them.
QueryCategory(category) ==
    Ascending({p \in DOMAIN products : products[p].category = category})

\* f"https://api.telegram.org/file/bot{TOKEN}/{file.file_path}"
Url(photo_id) == <<"https://api.telegram.org/file/bot", photo_id>>

\* The image download_image decodes from the bytes of url and shrinks.
Thumbnail(url) == <<"thumbnail", url>>

\* download_image for the i-th url of a batch, all of whose tasks look into
\* the cache before any of them is answered by the network.  net_ok: the
\* retrieval answers 200 and the bytes decode.
DownloadImageUncached(url, net_ok) == IF net_ok THEN "fetched" ELSE "miss"

DownloadImage(url, net_ok) ==
    IF url \in DOMAIN image_cache THEN "hit"
    ELSE IF net_ok THEN "fetched" ELSE "miss"

\* The cache after the tasks of a batch have written their entries.
CacheAfter(urls, how) ==
    LET written == {urls[i] : i \in {j \in DOMAIN urls : how[j] = "fetched"}}
    IN  [k \in DOMAIN image_cache \cup written |->
            IF k \in written THEN Thumbnail(k) ELSE image_cache[k]]

\* The lines of products_text: "{idx}. {name} - {price}".
RECURSIVE CaptionLines(_, _)
CaptionLines(ids, idx) ==
    IF idx > Len(ids) THEN <<>>
    ELSE <<<<idx, products[ids[idx]].name, products[ids[idx]].price>>>>
         \o CaptionLines(ids, idx + 1)

\* The numbered buttons: text str(idx), callback_data product_{id}.
RECURSIVE Buttons(_, _, _)
Buttons(ids, idx, num_products) ==
    IF idx > num_products THEN <<>>
    ELSE <<<<IntToStr(idx), ProductData(ids[idx])>>>>
         \o Buttons(ids, idx + 1, num_products)

CreateCombinedMessagePerImage(ids, how, collage_ok) ==
    LET images == {i \in DOMAIN how : how[i] # "miss"}
    IN  IF images = {} \/ ~collage_ok
        THEN [ok |-> FALSE, products_text |-> <<>>, num_products |-> 0]
        ELSE [ok |-> TRUE, products_text |-> CaptionLines(ids, 1),
              num_products |-> Cardinality(images)]

\* The sizes (width, height) thumbnails have: thumbnail((400, 400)) keeps the
\* proportions of the picture.
ImageSizes == {<<4, 3>>, <<3, 4>>, <<4, 4>>}

NoCollage == [ok |-> FALSE, cols |-> 0, rows |-> 0, size |-> <<0, 0>>, boxes |-> <<>>]

CreateCollageSyncRowsFloored(images) ==
    LET num_images == Len(images)
        cols == IF num_images < 3 THEN num_images ELSE 3
    IN  IF num_images = 0 THEN NoCollage
        ELSE LET rows == num_images \div cols
                 img_width == images[1][1]
                 img_height == images[1][2]
             IN  [ok |-> TRUE, cols |-> cols, rows |-> rows,
                  size |-> <<cols * img_width, rows * img_height>>,
                  boxes |-> [k \in 1..num_images |->
                               <<((k - 1) % cols) * img_width,
                                 ((k - 1) \div cols) * img_height>>]]

\* create_collage_sync on the sizes of the images: the grid, the size of the
\* canvas and the corner each image is pasted at (boxes[k] for the image of
\* index k - 1).  With no image the division by cols = 0 raises, which the
\* function catches and answers None.
CreateCollageSync(images) ==
    LET num_images == Len(images)
        cols == IF num_images < 3 THEN num_images ELSE 3
    IN  IF num_images = 0 THEN NoCollage
        ELSE LET rows == (num_images + cols - 1) \div cols
                 img_width == images[1][1]
                 img_height == images[1][2]
             IN  [ok |-> TRUE, cols |-> cols, rows |-> rows,
                  size |-> <<cols * img_width, rows * img_height>>,
                  boxes |-> [k \in 1..num_images |->
                               <<((k - 1) % cols) * img_width,
                                 ((k - 1) \div cols) * img_height>>]]

\* create_combined_message: None when no image is left or the collage could
\* not be made, else the caption and len(products).
CreateCombinedMessage(ids, how, collage_ok) ==
    LET images == {i \in DOMAIN how : how[i] # "miss"}
    IN  IF images = {} \/ ~collage_ok
        THEN [ok |-> FALSE, products_text |-> <<>>, num_products |-> 0]
        ELSE [ok |-> TRUE, products_text |-> CaptionLines(ids, 1),
              num_products |-> Len(ids)]

\* What the calls of a batch did, for `last`.
FetchLog(urls, how) == [i \in DOMAIN urls |-> <<"fetch", urls[i], how[i]>>]

\* The call of create_collage_sync that create_combined_message makes when
\* an image is left, with the number of images it is given.
ComposeLog(how) ==
    LET images == {i \in DOMAIN how : how[i] # "miss"}
    IN  IF images = {} THEN <<>> ELSE <<<<"compose", Cardinality(images)>>>>

\* delete_previous_messages: every id is tried; an id that is not on screen
\* or that the transport refuses (undeletable) stays and is logged.
ChatAfterDelete(shown, message_ids, undeletable) ==
    shown \ (Range(message_ids) \ undeletable)

DeleteLog(message_ids) == [i \in DOMAIN message_ids |-> <<"delete", message_ids[i]>>]

\* The id the transport gives the next message with buttons of the chat.
FreshMsgIds(u) == MsgIds \ (chat[u] \cup Range(user_data[u].last_msg_ids))

NextMsgId(u) == CHOOSE i \in FreshMsgIds(u) : \A j \in FreshMsgIds(u) : i <= j

\* ------------------------------------------------------------------ browse

Session(category, ids, last_msg_ids) ==
    [category |-> category, products |-> ids, last_msg_ids |-> last_msg_ids,
     present |-> TRUE]

\* A message with buttons, for `last`: the list of a category (collage or
\* text), the view of one product, or the cart.
ListUnit(msg_id, kind, caption, buttons) == <<"unit", msg_id, kind, caption, buttons>>

\* show_products_list over the session sess of u and the messages on screen:
\* the text-only listing of the session's products.  Gives the session, the
\* chat and what was emitted.
ShowProductsListUntracked(u, sess, on_screen, undeletable, send_ok) ==
    IF ~sess.present
    THEN [sess |-> sess, chat |-> on_screen, out |-> <<<<"list_error">>>>]
    ELSE LET ids == sess.products
             shown == ChatAfterDelete(on_screen, sess.last_msg_ids, undeletable)
             msg_id == NextMsgId(u)
         IN  IF send_ok
             THEN [sess |-> sess, chat |-> shown \cup {msg_id},
                   out |-> DeleteLog(sess.last_msg_ids)
                           \o <<ListUnit(msg_id, "text", CaptionLines(ids, 1),
                                         Buttons(ids, 1, Len(ids)))>>]
             ELSE [sess |-> sess, chat |-> shown,
                   out |-> Append(DeleteLog(sess.last_msg_ids), <<"try_later">>)]

ShowProductsList(u, sess, on_screen, undeletable, send_ok) ==
    IF ~sess.present
    THEN [sess |-> sess, chat |-> on_screen, out |-> <<<<"list_error">>>>]
    ELSE LET ids == sess.products
             shown == ChatAfterDelete(on_screen, sess.last_msg_ids, undeletable)
             msg_id == NextMsgId(u)
         IN  IF send_ok
             THEN [sess |-> [sess EXCEPT !.last_msg_ids = <<msg_id>>],
                   chat |-> shown \cup {msg_id},
                   out |-> DeleteLog(sess.last_msg_ids)
                           \o <<ListUnit(msg_id, "text", CaptionLines(ids, 1),
                                         Buttons(ids, 1, Len(ids)))>>]
             ELSE [sess |-> sess, chat |-> shown,
                   out |-> Append(DeleteLog(sess.last_msg_ids), <<"try_later">>)]

\* The part of show_category and of back_to_list from the lookup of the
\* files to the sending of the collage, over the session sess the handler
\* has stored for u and the messages on screen.  failing: the
\* products whose image the network does not deliver; files_ok: get_file
\* answers; collage_ok: the collage is made; send_ok: the transport takes the
\* new message; delete_first: show_category retracts here, back_to_list has
\* done so before.
RenderCollage(u, sess, on_screen, failing, files_ok, collage_ok, undeletable, send_ok, delete_first) ==
    LET ids == sess.products
        urls == [i \in DOMAIN ids |-> Url(products[ids[i]].photo_id)]
        how == [i \in DOMAIN ids |-> DownloadImage(urls[i], ids[i] \notin failing)]
        combined == CreateCombinedMessage(ids, how, collage_ok)
        previous == IF delete_first THEN sess.last_msg_ids ELSE <<>>
        shown == ChatAfterDelete(on_screen, previous, undeletable)
        msg_id == NextMsgId(u)
    IN  IF ~files_ok
        THEN [sess |-> sess, chat |-> on_screen, cache |-> image_cache,
              out |-> <<<<"try_later">>>>]
        ELSE IF ~combined.ok
        THEN LET list == ShowProductsList(u, sess, on_screen, undeletable, send_ok)
             IN  [sess |-> list.sess, chat |-> list.chat,
                  cache |-> CacheAfter(urls, how),
                  out |-> FetchLog(urls, how) \o ComposeLog(how)
                          \o <<<<"collage_failed">>>> \o list.out]
        ELSE IF send_ok
        THEN [sess |-> [sess EXCEPT !.last_msg_ids = <<msg_id>>],
              chat |-> shown \cup {msg_id},
              cache |-> CacheAfter(urls, how),
              out |-> FetchLog(urls, how) \o ComposeLog(how) \o DeleteLog(previous)
                      \o <<ListUnit(msg_id, "collage", combined.products_text,
                                    Buttons(ids, 1, combined.num_products))>>]
        ELSE [sess |-> sess, chat |-> shown, cache |-> CacheAfter(urls, how),
              out |-> FetchLog(urls, how) \o ComposeLog(how) \o DeleteLog(previous)
                      \o <<<<"try_later">>>>]

\* show_category
ShowCategory(u, m, failing, files_ok, collage_ok, undeletable, send_ok) ==
    LET category == MenuCategoryMap[m.text]
        ids == QueryCategory(category)
        r == RenderCollage(u, Session(category, ids, <<>>), chat[u], failing,
                           files_ok, collage_ok, undeletable, send_ok, TRUE)
    IN  /\ Route(fsm_state[u], m) = "show_category"
        /\ IF ids = <<>>
           THEN /\ last' = Ran("show_category", u, m, <<<<"no_products">>>>)
                /\ UNCHANGED <<user_data, chat, image_cache>>
           ELSE /\ FreshMsgIds(u) # {}
                /\ user_data' = [user_data EXCEPT ![u] = r.sess]
                /\ chat' = [chat EXCEPT ![u] = r.chat]
                /\ image_cache' = r.cache
                /\ last' = Ran("show_category", u, m, r.out)
        /\ UNCHANGED <<products, cart, fsm_state, fsm_data, batch, calls>>

\* show_product
\* The lookup show_product answers "not found" to: no session of the user, or
\* an id that is no key of the session's products.
NotInCatalog(sess, product_id) == product_id \notin DOMAIN products

NotInSession(sess, product_id) ==
    ~sess.present \/ product_id \notin Range(sess.products)

ShowProduct(u, data, undeletable, send_ok) ==
    LET product_id == CallbackId(data)
        sess == user_data[u]
        shown == ChatAfterDelete(chat[u], sess.last_msg_ids, undeletable)
        msg_id == NextMsgId(u)
    IN  /\ data[1] = "product"
        /\ IF NotInSession(sess, product_id)
           THEN /\ last' = Ran("show_product", u, CallbackQuery(data),
                               <<<<"product_not_found">>>>)
                /\ UNCHANGED <<user_data, chat>>
           ELSE /\ FreshMsgIds(u) # {}
                /\ IF send_ok
                   THEN /\ user_data' = [user_data EXCEPT ![u].last_msg_ids = <<msg_id>>]
                        /\ chat' = [chat EXCEPT ![u] = shown \cup {msg_id}]
                        /\ last' = Ran("show_product", u, CallbackQuery(data),
                                       Append(DeleteLog(sess.last_msg_ids),
                                              <<"unit", msg_id, "product", product_id,
                                                <<BackToListData(sess.category),
                                                  AddData(product_id)>>>>))
                   ELSE /\ chat' = [chat EXCEPT ![u] = shown]
                        /\ last' = Ran("show_product", u, CallbackQuery(data),
                                       Append(DeleteLog(sess.last_msg_ids),
                                              <<"try_later">>))
                        /\ UNCHANGED user_data
        /\ UNCHANGED <<products, cart, image_cache, fsm_state, fsm_data, batch, calls>>

\* callback.data.split('_')[-1]
LastSegment(data) == <<data[Len(data)]>>

\* back_to_list
BackToList(u, data, failing, files_ok, collage_ok, undeletable, send_ok) ==
    LET category == LastSegment(data)
        sess == user_data[u]
        shown == ChatAfterDelete(chat[u], sess.last_msg_ids, undeletable)
        ids == QueryCategory(category)
        r == RenderCollage(u, [sess EXCEPT !.products = ids], shown, failing,
                           files_ok, collage_ok, undeletable, send_ok, FALSE)
    IN  /\ SubSeq(data, 1, 3) = <<"back", "to", "list">>
        /\ IF ~sess.present \/ sess.category # category
           THEN /\ last' = Ran("back_to_list", u, CallbackQuery(data), <<<<"navigation_error">>>>)
                /\ UNCHANGED <<user_data, chat, image_cache>>
           ELSE IF ids = <<>>
           THEN /\ chat' = [chat EXCEPT ![u] = shown]
                /\ last' = Ran("back_to_list", u, CallbackQuery(data),
                               Append(DeleteLog(sess.last_msg_ids), <<"no_products">>))
                /\ UNCHANGED <<user_data, image_cache>>
           ELSE /\ FreshMsgIds(u) # {}
                /\ user_data' = [user_data EXCEPT ![u] = r.sess]
                /\ chat' = [chat EXCEPT ![u] = r.chat]
                /\ image_cache' = r.cache
                /\ last' = Ran("back_to_list", u, CallbackQuery(data), DeleteLog(sess.last_msg_ids) \o r.out)
        /\ UNCHANGED <<products, cart, fsm_state, fsm_data, batch, calls>>

\* show_cart for the user the message is from.  The message with the cart
\* buttons is kept track of only through a session that refers to it.
ShowCart(u, send_ok) ==
    LET cart_items == CartItems(u)
        missing == {p \in cart_items : p \notin DOMAIN products}
        msg_id == NextMsgId(u)
    IN  IF cart_items = {}
        THEN [sess |-> user_data[u], chat |-> chat[u], out |-> <<<<"cart_empty">>>>]
        ELSE IF missing # {} \/ ~send_ok
        THEN [sess |-> user_data[u], chat |-> chat[u], out |-> <<<<"cart_failed">>>>]
        ELSE IF user_data[u].present
        THEN [sess |-> [user_data[u] EXCEPT !.last_msg_ids = <<msg_id>>],
              chat |-> chat[u] \cup {msg_id},
              out |-> <<<<"unit", msg_id, "cart", SumPrices(u, cart_items),
                          <<<<"clear", "cart">>, <<"checkout">>>>>>>>]
        ELSE [sess |-> user_data[u], chat |-> chat[u],
              out |-> <<<<"unit", 0, "cart", SumPrices(u, cart_items),
                          <<<<"clear", "cart">>, <<"checkout">>>>>>>>]

\* handle_cart_message
HandleCartMessage(u, m, send_ok) ==
    LET r == ShowCart(u, send_ok)
    IN  /\ Route(fsm_state[u], m) = "handle_cart_message"
        /\ CartItems(u) # {} /\ user_data[u].present => FreshMsgIds(u) # {}
        /\ user_data' = [user_data EXCEPT ![u] = r.sess]
        /\ chat' = [chat EXCEPT ![u] = r.chat]
        /\ last' = Ran("handle_cart_message", u, m, r.out)
        /\ UNCHANGED <<products, cart, image_cache, fsm_state, fsm_data, batch, calls>>

\* remove_from_cart: data names the Cart row of the user for a product.  The
\* cart is then shown for the sender of callback.message, which is the bot,
\* whose cart is empty.
RemoveFromCart(u, data) ==
    LET product_id == CallbackId(data)
    IN  /\ data[1] = "remove"
        /\ IF cart[<<u, product_id>>] = 0
           THEN /\ last' = Ran("remove_from_cart", u, CallbackQuery(data), <<<<"not_in_cart">>>>)
                /\ UNCHANGED cart
           ELSE IF product_id \notin DOMAIN products
           THEN /\ last' = Ran("remove_from_cart", u, CallbackQuery(data), <<<<"remove_failed">>>>)
                /\ UNCHANGED cart
           ELSE /\ cart' = [cart EXCEPT ![<<u, product_id>>] = @ - 1]
                /\ last' = Ran("remove_from_cart", u, CallbackQuery(data),
                               <<<<"removed", products[product_id].name>>,
                                 <<"cart_empty">>>>)
        /\ UNCHANGED <<products, user_data, image_cache, fsm_state, fsm_data, chat, batch, calls>>

\* ------------------------------------------------------------------ inputs

Commands == {<<"/start">>, <<"/add">>, <<"/delete">>, <<"/myid">>}

\* The texts of the menu keyboard.
MenuMessages == {TextMsg(t) : t \in {MenuMain, MenuTeam, MenuCart, MenuHelp}}

CommandMessages == {TextMsg(t) : t \in Commands}

\* What is sent to each step of a flow: what the step asks for, and updates
\* of another shape or meant for another handler.
PhoneMessages ==
    {TextMsg(CancelOrder), TextMsg(<<"@", "u">>), ContactMsg(<<"+", "7", "9">>)}

PaymentMessages == {TextMsg(<<"card">>), PhotoMsg("ph1"), TextMsg(<<"/add">>)}

PhotoMessages == {PhotoMsg("ph1")}

NameMessages == {TextMsg(<<"C">>), PhotoMsg("ph1")}

PriceMessages ==
    {TextMsg(<<"1", "0", "0">>), TextMsg(<<"a", "b", "c">>),
     TextMsg(<<"1", "0", "x">>), TextMsg(<<"/delete">>), PhotoMsg("ph1")}

DescriptionMessages == {TextMsg(<<"fast">>)}

CategoryMessages ==
    {TextMsg(AdminMain), TextMsg(AdminTeam), TextMsg(<<"main">>),
     TextMsg(<<"/delete">>), PhotoMsg("ph1")}

IdMessages ==
    {TextMsg(<<"1">>), TextMsg(<<"1", " ", "9", "x", " ", "2">>),
     TextMsg(<<"2", " ", " ", "7", " ", "2">>), TextMsg(<<"x">>), PhotoMsg("ph1")}

\* callback_data of the buttons the bot makes; a chat keeps the buttons of
\* earlier runs of the process.
ProductButtons == {ProductData(p) : p \in ProductIds}
AddButtons == {AddData(p) : p \in ProductIds}
RemoveButtons == {RemoveData(p) : p \in ProductIds}
BackToListButtons == {BackToListData(c) : c \in {CatMain, CatTeamTransport}}

\* ---------------------------------------------------------- specification

\* The outcomes that matter to a handler: only the images of the listed
\* products can fail, only the messages the session refers to are deleted.
Listed(category) == Range(QueryCategory(category))
Referred(u) == Range(user_data[u].last_msg_ids)
Handles(u, m, handler) == Route(fsm_state[u], m) = handler

\* The handlers by what they serve; u is the user the update is from.
Replies(u) ==
    \/ \E m \in CommandMessages : Handles(u, m, "cmd_start") /\ CmdStart(u, m)
    \/ \E m \in MenuMessages : Handles(u, m, "show_help") /\ ShowHelp(u, m)
    \/ \E m \in CommandMessages : Handles(u, m, "cmd_myid") /\ CmdMyId(u, m)
    \/ BackToMenu(u)

Browse(u) ==
    \/ \E m \in MenuMessages :
          /\ Handles(u, m, "show_category")
          /\ \E failing \in SUBSET Listed(MenuCategoryMap[m.text]),
                files_ok, collage_ok, send_ok \in BOOLEAN :
                ShowCategory(u, m, failing, files_ok, collage_ok, {}, send_ok)
    \/ \E data \in ProductButtons, undeletable \in SUBSET Referred(u),
          send_ok \in BOOLEAN :
          ShowProduct(u, data, undeletable, send_ok)
    \/ \E data \in BackToListButtons :
          \E failing \in SUBSET Listed(LastSegment(data)),
             undeletable \in SUBSET Referred(u),
             files_ok, collage_ok, send_ok \in BOOLEAN :
             BackToList(u, data, failing, files_ok, collage_ok, undeletable, send_ok)

Shop(u) ==
    \/ \E data \in AddButtons : AddToCart(u, data)
    \/ \E data \in RemoveButtons : RemoveFromCart(u, data)
    \/ ClearCart(u)
    \/ \E m \in MenuMessages, send_ok \in BOOLEAN :
          Handles(u, m, "handle_cart_message") /\ HandleCartMessage(u, m, send_ok)
    \/ StartCheckout(u)
    \/ \E m \in PhoneMessages : Handles(u, m, "process_phone") /\ ProcessPhone(u, m)
    \/ \E m \in PaymentMessages :
          /\ Handles(u, m, "process_payment_info")
          /\ \E store_ok, user_ok, admin_ok \in BOOLEAN :
                ProcessPaymentInfo(u, m, store_ok, user_ok, admin_ok)

CatalogAdd(u) ==
    \/ \E m \in CommandMessages : Handles(u, m, "cmd_add") /\ CmdAdd(u, m)
    \/ \E m \in PhotoMessages : Handles(u, m, "process_photo") /\ ProcessPhoto(u, m)
    \/ \E m \in NameMessages : Handles(u, m, "process_name") /\ ProcessName(u, m)
    \/ \E m \in PriceMessages : Handles(u, m, "process_price") /\ ProcessPrice(u, m)
    \/ \E m \in DescriptionMessages :
          Handles(u, m, "process_description") /\ ProcessDescription(u, m)
    \/ \E m \in CategoryMessages :
          /\ Handles(u, m, "process_category")
          /\ \E store_ok \in BOOLEAN : ProcessCategory(u, m, store_ok)

CatalogDelete(u) ==
    \/ \E m \in CommandMessages \cup PriceMessages \cup CategoryMessages :
          Handles(u, m, "cmd_delete") /\ CmdDelete(u, m)
    \/ \E m \in IdMessages :
          /\ Handles(u, m, "process_delete_id")
          /\ \E store_ok, autoflush \in BOOLEAN :
                ProcessDeleteId(u, m, store_ok, autoflush)

\* Every update any user can send.
Next ==
    \E u \in Users :
        Replies(u) \/ Browse(u) \/ Shop(u) \/ CatalogAdd(u) \/ CatalogDelete(u)

Spec == Init /\ [][Next]_vars

\* Users browsing the catalog while the operator deletes from it.
NextBrowse == (\E u \in Customers : Browse(u)) \/ CatalogDelete(ADMIN_ID)

SpecBrowse == Init /\ [][NextBrowse]_vars

\* Users filling carts and ordering while the operator deletes from the
\* catalog.
NextShop == (\E u \in Customers : Shop(u)) \/ CatalogDelete(ADMIN_ID)

SpecShop == Init /\ [][NextShop]_vars

\* The catalog flows, open to every user, and the operator's plain commands.
NextCatalog ==
    \/ Replies(ADMIN_ID)
    \/ \E u \in Users : CatalogAdd(u) \/ CatalogDelete(u)

SpecCatalog == Init /\ [][NextCatalog]_vars

\* Browsing a catalog two products of which have the same photo.
GalleryProducts ==
    (1 :> Product(CatMain, <<"A">>, 100, "ph1", <<"d">>))
    @@ (2 :> Product(CatMain, <<"B">>, 250, "ph1", <<"d">>))

InitGallery ==
    /\ products = GalleryProducts
    /\ cart = [k \in Users \X ProductIds |-> 0]
    /\ user_data = [u \in Users |-> NoSession]
    /\ image_cache = [k \in {} |-> None]
    /\ fsm_state = [u \in Users |-> "idle"]
    /\ fsm_data = [u \in Users |-> NoData]
    /\ chat = [u \in Users |-> {}]
    /\ calls = NoCalls
    /\ batch = NoBatch
    /\ last = Ran("start", 0, TextMsg(<<>>), <<>>)

NextGallery == \E u \in Customers : Browse(u)

SpecGallery == InitGallery /\ [][NextGallery]_vars

\* create_combined_message task by task.  The call makes one download_image
\* coroutine per url, gather schedules them all as tasks, every task runs up
\* to its retrieval (or ends at once on a cache hit) and ends when the answer
\* is there; when gather returns, the images left are given to the composer.
UrlLists == UNION {[1..n -> {Url("ph1"), Url("ph2")}] : n \in 1..MaxBatch}

Resolved == {"hit", "fetched", "miss"}

\* images = await asyncio.gather(*tasks) has returned for fewer tasks.
AnyTaskDone(status) == \E i \in DOMAIN status : status[i] \in Resolved

\* images = await asyncio.gather(*tasks): the call goes on when every task
\* has ended.
AllTasksDone(status) == \A i \in DOMAIN status : status[i] \in Resolved

InitBatch ==
    /\ products = InitProducts
    /\ cart = [k \in Users \X ProductIds |-> 0]
    /\ user_data = [u \in Users |-> NoSession]
    /\ image_cache \in {[k \in {} |-> None],
                        [k \in {Url("ph1")} |-> Thumbnail(k)]}
    /\ fsm_state = [u \in Users |-> "idle"]
    /\ fsm_data = [u \in Users |-> NoData]
    /\ chat = [u \in Users |-> {}]
    /\ calls = NoCalls
    /\ \E urls \in UrlLists :
          batch = [phase |-> "called", urls |-> urls,
                   status |-> [i \in DOMAIN urls |-> "coroutine"]]
    /\ last = Ran("start", 0, TextMsg(<<>>), <<>>)

BatchFrame == UNCHANGED <<products, cart, user_data, fsm_state, fsm_data, chat, calls, last>>

\* asyncio.gather(*tasks): every coroutine becomes a scheduled task.
Gather ==
    /\ batch.phase = "called"
    /\ batch' = [batch EXCEPT !.phase = "gathering",
                              !.status = [i \in DOMAIN batch.urls |-> "scheduled"]]
    /\ UNCHANGED image_cache
    /\ BatchFrame

\* A task runs download_image up to session.get: a cached url ends it.
TaskStart(i) ==
    /\ batch.phase = "gathering"
    /\ batch.status[i] = "scheduled"
    /\ batch' = [batch EXCEPT !.status[i] =
                    IF DownloadImage(batch.urls[i], TRUE) = "hit"
                    THEN "hit" ELSE "requested"]
    /\ UNCHANGED image_cache
    /\ BatchFrame

\* The answer of the retrieval is there: the image is cached, or None.
TaskEnd(i, net_ok) ==
    /\ batch.phase = "gathering"
    /\ batch.status[i] = "requested"
    /\ batch' = [batch EXCEPT !.status[i] = IF net_ok THEN "fetched" ELSE "miss"]
    /\ image_cache' =
          IF net_ok
          THEN [k \in DOMAIN image_cache \cup {batch.urls[i]} |->
                   IF k = batch.urls[i] THEN Thumbnail(k) ELSE image_cache[k]]
          ELSE image_cache
    /\ BatchFrame

\* gather has returned: None without an image, else the composer is called.
GatherReturns ==
    /\ batch.phase = "gathering"
    /\ AllTasksDone(batch.status)
    /\ batch' = [batch EXCEPT !.phase =
                    IF \A i \in DOMAIN batch.status : batch.status[i] = "miss"
                    THEN "returned_none" ELSE "composing"]
    /\ UNCHANGED image_cache
    /\ BatchFrame

\* create_collage_sync has ended in the executor.
Composed(collage_ok) ==
    /\ batch.phase = "composing"
    /\ batch' = [batch EXCEPT !.phase =
                    IF collage_ok THEN "returned_collage" ELSE "returned_none"]
    /\ UNCHANGED image_cache
    /\ BatchFrame

NextBatch ==
    \/ Gather
    \/ \E i \in 1..MaxBatch : i \in DOMAIN batch.urls /\ TaskStart(i)
    \/ \E i \in 1..MaxBatch, net_ok \in BOOLEAN :
          i \in DOMAIN batch.urls /\ TaskEnd(i, net_ok)
    \/ GatherReturns
    \/ \E collage_ok \in BOOLEAN : Composed(collage_ok)

SpecBatch == InitBatch /\ [][NextBatch]_vars

\* download_image await by await, for tasks of any calls: the url is looked
\* up in the cache, the request is answered, the body is read, the bytes are
\* decoded in the executor, and the task that gets its image back shrinks it
\* and stores it.  The image a task decodes is an object of its own.
ThumbnailBy(url, i) == <<"thumbnail", url, i>>

InitFetch ==
    /\ products = InitProducts
    /\ cart = [k \in Users \X ProductIds |-> 0]
    /\ user_data = [u \in Users |-> NoSession]
    /\ image_cache \in {[k \in {} |-> None],
                        [k \in {Url("ph1")} |-> Thumbnail(k)]}
    /\ fsm_state = [u \in Users |-> "idle"]
    /\ fsm_data = [u \in Users |-> NoData]
    /\ chat = [u \in Users |-> {}]
    /\ calls = NoCalls
    /\ \E urls \in UrlLists :
          batch = [phase |-> "gathering", urls |-> urls,
                   status |-> [i \in DOMAIN urls |-> "scheduled"]]
    /\ last = Ran("start", 0, TextMsg(<<>>), <<>>)

\* async with session.get(url) as response: the answer is there; anything
\* but a 200, or an exception, ends the task with None.
FetchAnswered(i, status_200) ==
    /\ batch.status[i] = "requested"
    /\ batch' = [batch EXCEPT !.status[i] = IF status_200 THEN "reading" ELSE "miss"]
    /\ UNCHANGED image_cache
    /\ BatchFrame

\* image_data = await response.read(); the decoding is handed to the executor.
FetchRead(i, read_ok) ==
    /\ batch.status[i] = "reading"
    /\ batch' = [batch EXCEPT !.status[i] = IF read_ok THEN "decoding" ELSE "miss"]
    /\ UNCHANGED image_cache
    /\ BatchFrame

\* The cache entry is written only where the url has none.
FetchDecodedKeepFirst(i, decode_ok) ==
    LET url == batch.urls[i]
    IN  /\ batch.status[i] = "decoding"
        /\ batch' = [batch EXCEPT !.status[i] = IF decode_ok THEN "fetched" ELSE "miss"]
        /\ image_cache' =
              IF decode_ok /\ url \notin DOMAIN image_cache
              THEN [k \in DOMAIN image_cache \cup {url} |->
                       IF k = url THEN ThumbnailBy(url, i) ELSE image_cache[k]]
              ELSE image_cache
        /\ BatchFrame

\* The executor has answered: image.thumbnail((400, 400)),
\* image_cache[url] = image, return image; or an exception and None.
FetchDecoded(i, decode_ok) ==
    LET url == batch.urls[i]
    IN  /\ batch.status[i] = "decoding"
        /\ batch' = [batch EXCEPT !.status[i] = IF decode_ok THEN "fetched" ELSE "miss"]
        /\ image_cache' =
              IF decode_ok
              THEN [k \in DOMAIN image_cache \cup {url} |->
                       IF k = url THEN ThumbnailBy(url, i) ELSE image_cache[k]]
              ELSE image_cache
        /\ BatchFrame

NextFetch ==
    \/ \E i \in 1..MaxBatch : i \in DOMAIN batch.urls /\ TaskStart(i)
    \/ \E i \in 1..MaxBatch, status_200 \in BOOLEAN :
          i \in DOMAIN batch.urls /\ FetchAnswered(i, status_200)
    \/ \E i \in 1..MaxBatch, read_ok \in BOOLEAN :
          i \in DOMAIN batch.urls /\ FetchRead(i, read_ok)
    \/ \E i \in 1..MaxBatch, decode_ok \in BOOLEAN :
          i \in DOMAIN batch.urls /\ FetchDecoded(i, decode_ok)

SpecFetch == InitFetch /\ [][NextFetch]_vars

\* The collage composer on its own: it is given a list of thumbnails.
ImageLists == UNION {[1..n -> ImageSizes] : n \in 0..MaxImages}

InitCollage ==
    /\ products = InitProducts
    /\ cart = [k \in Users \X ProductIds |-> 0]
    /\ user_data = [u \in Users |-> NoSession]
    /\ image_cache = [k \in {} |-> None]
    /\ fsm_state = [u \in Users |-> "idle"]
    /\ fsm_data = [u \in Users |-> NoData]
    /\ chat = [u \in Users |-> {}]
    /\ calls = NoCalls
    /\ batch = NoBatch
    /\ \E images \in ImageLists : last = Ran("images", 0, images, <<>>)

ComposeCollage ==
    /\ last.h = "images"
    /\ last' = Ran("create_collage_sync", 0, last.in, <<CreateCollageSync(last.in)>>)
    /\ UNCHANGED <<products, cart, user_data, image_cache, fsm_state, fsm_data, chat, batch, calls>>

NextCollage == ComposeCollage

SpecCollage == InitCollage /\ [][NextCollage]_vars

\* ------------------------------------------------- handlers await by await

\* show_category and show_product as the event loop runs them: an action is
\* the code of one coroutine from one resumption to its next await.  A call
\* holds the handler's local variables: the update (in), category, the
\* product ids it lists (ids), the list given to delete_previous_messages
\* (previous), and what it has emitted (out).
CallFrame == UNCHANGED <<products, cart, fsm_state, fsm_data, last>>

InFlight(u) == {t \in Slots : calls[t].h # "none" /\ calls[t].u = u}

\* A message id is left for every coroutine of u that may send a unit.
IdsLeft(u) == Cardinality(FreshMsgIds(u)) > Cardinality(InFlight(u))

\* "if user_data[user_id]['last_msg_ids']: await delete_previous_messages(..)"
\* and then the send: where the coroutine waits next, and the list it gave.
Retract(u, deleting, sending) ==
    IF user_data[u].last_msg_ids # <<>>
    THEN [pc |-> deleting, previous |-> user_data[u].last_msg_ids]
    ELSE [pc |-> sending, previous |-> <<>>]

\* show_category up to its first await: the query, the session of the user
\* replaced, get_file asked for every product; or the "no products" answer.
CategoryCalled(s, u, m) ==
    LET category == MenuCategoryMap[m.text]
        ids == QueryCategory(category)
    IN  /\ calls[s].h = "none"
        /\ Route(fsm_state[u], m) = "show_category"
        /\ IdsLeft(u)
        /\ calls' = [calls EXCEPT ![s] =
              [h |-> "show_category", u |-> u,
               pc |-> IF ids = <<>> THEN "no_products" ELSE "files",
               in |-> m, category |-> category, ids |-> ids,
               previous |-> <<>>, out |-> <<>>]]
        /\ user_data' = IF ids = <<>> THEN user_data
                        ELSE [user_data EXCEPT ![u] = Session(category, ids, <<>>)]
        /\ UNCHANGED <<chat, image_cache, batch>>
        /\ CallFrame

\* show_product up to its first await: "not found" and return, or the list
\* of the session given to delete_previous_messages, or the photo sent.
ProductCalled(s, u, data) ==
    LET product_id == CallbackId(data)
        sess == user_data[u]
        next == Retract(u, "deleting", "sending")
    IN  /\ calls[s].h = "none"
        /\ data[1] = "product"
        /\ IdsLeft(u)
        /\ calls' = [calls EXCEPT ![s] =
              IF NotInSession(sess, product_id)
              THEN [h |-> "show_product", u |-> u, pc |-> "done",
                    in |-> CallbackQuery(data), category |-> <<>>, ids |-> <<>>,
                    previous |-> <<>>, out |-> <<<<"product_not_found">>>>]
              ELSE [h |-> "show_product", u |-> u, pc |-> next.pc,
                    in |-> CallbackQuery(data), category |-> sess.category,
                    ids |-> <<product_id>>, previous |-> next.previous,
                    out |-> <<>>]]
        /\ UNCHANGED <<user_data, chat, image_cache, batch>>
        /\ CallFrame

\* "files = await asyncio.gather(*file_tasks)" has ended: the urls are made
\* and create_combined_message is called, or the exception is caught and the
\* failure message sent.  The pipeline is followed for one call at a time.
FilesResolved(s, files_ok) ==
    LET c == calls[s]
        urls == [i \in DOMAIN c.ids |-> Url(products[c.ids[i]].photo_id)]
    IN  /\ c.pc = "files"
        /\ IF files_ok
           THEN /\ batch = NoBatch
                /\ batch' = [phase |-> "called", urls |-> urls,
                             status |-> [i \in DOMAIN urls |-> "coroutine"]]
                /\ calls' = [calls EXCEPT ![s].pc = "combining"]
           ELSE /\ calls' = [calls EXCEPT ![s].pc = "failing"]
                /\ UNCHANGED batch
        /\ UNCHANGED <<user_data, chat, image_cache>>
        /\ CallFrame

\* create_combined_message has returned: None, and the notice of the
\* fallback is sent; or the collage, and the coroutine retracts and sends.
CombinedReturned(s) ==
    LET c == calls[s]
        next == Retract(c.u, "deleting", "sending")
    IN  /\ c.pc = "combining"
        /\ batch.phase \in {"returned_none", "returned_collage"}
        /\ batch' = NoBatch
        /\ calls' = [calls EXCEPT ![s] =
              IF batch.phase = "returned_none"
              THEN [c EXCEPT !.pc = "notice"]
              ELSE [c EXCEPT !.pc = next.pc, !.previous = next.previous]]
        /\ UNCHANGED <<user_data, chat, image_cache>>
        /\ CallFrame

\* The answer "no products in this category" has been sent, or was refused.
NoProductsSent(s, send_ok) ==
    LET c == calls[s]
    IN  /\ c.pc = "no_products"
        /\ calls' = [calls EXCEPT ![s] =
              IF send_ok
              THEN [c EXCEPT !.pc = "done", !.out = Append(@, <<"no_products">>)]
              ELSE [c EXCEPT !.pc = "failing"]]
        /\ UNCHANGED <<user_data, chat, image_cache, batch>>
        /\ CallFrame

\* The notice "collage failed, the list only" has been sent and
\* show_products_list is entered: it reads the session of the user, retracts
\* and sends; or the notice was refused.
NoticeSent(s, send_ok) ==
    LET c == calls[s]
        next == Retract(c.u, "list_deleting", "list_sending")
    IN  /\ c.pc = "notice"
        /\ calls' = [calls EXCEPT ![s] =
              IF send_ok
              THEN [c EXCEPT !.pc = next.pc, !.previous = next.previous,
                             !.ids = user_data[c.u].products,
                             !.out = Append(@, <<"collage_failed">>)]
              ELSE [c EXCEPT !.pc = "failing"]]
        /\ UNCHANGED <<user_data, chat, image_cache, batch>>
        /\ CallFrame

\* delete_previous_messages has ended: every delete was tried, an exception
\* of one is logged and the message stays.
PreviousDeleted(s, delete_ok) ==
    LET c == calls[s]
    IN  /\ c.pc \in {"deleting", "list_deleting"}
        /\ chat' = [chat EXCEPT ![c.u] =
              IF delete_ok THEN ChatAfterDelete(@, c.previous, {}) ELSE @]
        /\ calls' = [calls EXCEPT ![s] =
              [c EXCEPT !.pc = IF c.pc = "deleting" THEN "sending" ELSE "list_sending",
                        !.out = @ \o (IF delete_ok THEN DeleteLog(c.previous)
                                      ELSE <<<<"delete_failed">>>>)]]
        /\ UNCHANGED <<user_data, image_cache, batch>>
        /\ CallFrame

\* The unit a coroutine sends: the collage of the category, the text list of
\* the session, or the view of a product.
UnitOf(c, msg_id) ==
    IF c.h = "show_product"
    THEN <<"unit", msg_id, "product", c.ids[1],
           <<BackToListData(c.category), AddData(c.ids[1])>>>>
    ELSE ListUnit(msg_id, IF c.pc = "sending" THEN "collage" ELSE "text",
                  CaptionLines(c.ids, 1), Buttons(c.ids, 1, Len(c.ids)))

\* answer_photo of show_category or show_product has ended: the message is
\* on screen and its id is stored as the session's last_msg_ids; or the
\* exception is caught and the failure message sent.
UnitSent(s, send_ok) ==
    LET c == calls[s]
        msg_id == NextMsgId(c.u)
    IN  /\ c.pc = "sending"
        /\ IF send_ok
           THEN /\ chat' = [chat EXCEPT ![c.u] = @ \cup {msg_id}]
                /\ user_data' = [user_data EXCEPT ![c.u].last_msg_ids = <<msg_id>>]
                /\ calls' = [calls EXCEPT ![s] =
                      [c EXCEPT !.pc = "done", !.out = Append(@, UnitOf(c, msg_id))]]
           ELSE /\ calls' = [calls EXCEPT ![s].pc = "failing"]
                /\ UNCHANGED <<user_data, chat>>
        /\ UNCHANGED <<image_cache, batch>>
        /\ CallFrame

\* show_products_list answers once more after its failure message and lets
\* the exception go on to the caller.
ListFailureSentReraised(s, send_ok) ==
    LET c == calls[s]
    IN  /\ c.pc = "list_failing"
        /\ calls' = [calls EXCEPT ![s] =
              IF send_ok
              THEN [c EXCEPT !.pc = "failing", !.out = Append(@, <<"try_later">>)]
              ELSE [c EXCEPT !.pc = "failing"]]
        /\ UNCHANGED <<user_data, chat, image_cache, batch>>
        /\ CallFrame

\* message.answer of show_products_list has ended: as for the collage, but
\* the exception is caught in show_products_list.
ListSent(s, send_ok) ==
    LET c == calls[s]
        msg_id == NextMsgId(c.u)
    IN  /\ c.pc = "list_sending"
        /\ IF send_ok
           THEN /\ chat' = [chat EXCEPT ![c.u] = @ \cup {msg_id}]
                /\ user_data' = [user_data EXCEPT ![c.u].last_msg_ids = <<msg_id>>]
                /\ calls' = [calls EXCEPT ![s] =
                      [c EXCEPT !.pc = "done", !.out = Append(@, UnitOf(c, msg_id))]]
           ELSE /\ calls' = [calls EXCEPT ![s].pc = "list_failing"]
                /\ UNCHANGED <<user_data, chat>>
        /\ UNCHANGED <<image_cache, batch>>
        /\ CallFrame

\* The failure message of show_products_list has been sent and the call
\* returns; or it was refused and the exception reaches show_category.
ListFailureSent(s, send_ok) ==
    LET c == calls[s]
    IN  /\ c.pc = "list_failing"
        /\ calls' = [calls EXCEPT ![s] =
              IF send_ok
              THEN [c EXCEPT !.pc = "done", !.out = Append(@, <<"try_later">>)]
              ELSE [c EXCEPT !.pc = "failing"]]
        /\ UNCHANGED <<user_data, chat, image_cache, batch>>
        /\ CallFrame

\* The failure message of the handler's except block has been sent; or it
\* was refused and the exception leaves the handler.
FailureSent(s, send_ok) ==
    LET c == calls[s]
    IN  /\ c.pc = "failing"
        /\ calls' = [calls EXCEPT ![s] =
              [c EXCEPT !.pc = "done",
                        !.out = Append(@, IF send_ok THEN <<"try_later">>
                                          ELSE <<"raised">>)]]
        /\ UNCHANGED <<user_data, chat, image_cache, batch>>
        /\ CallFrame

\* The coroutine has ended and the dispatcher drops it.
CallReturns(s) ==
    LET c == calls[s]
    IN  /\ c.pc = "done"
        /\ calls' = [calls EXCEPT ![s] = NoCall]
        /\ UNCHANGED <<user_data, chat, image_cache, batch>>
        /\ CallFrame

\* An awaited operation of the coroutine in slot s ends.
Resumed(s) ==
    \/ \E files_ok \in BOOLEAN : FilesResolved(s, files_ok)
    \/ CombinedReturned(s)
    \/ \E send_ok \in BOOLEAN : NoProductsSent(s, send_ok)
    \/ \E send_ok \in BOOLEAN : NoticeSent(s, send_ok)
    \/ \E delete_ok \in BOOLEAN : PreviousDeleted(s, delete_ok)
    \/ \E send_ok \in BOOLEAN : UnitSent(s, send_ok)
    \/ \E send_ok \in BOOLEAN : ListSent(s, send_ok)
    \/ \E send_ok \in BOOLEAN : ListFailureSent(s, send_ok)
    \/ \E send_ok \in BOOLEAN : FailureSent(s, send_ok)

\* A user browsing while the coroutines of their earlier updates are still
\* waiting: the dispatcher starts a coroutine for every update.  The render
\* pipeline is followed in slot 1.  Every awaited operation ends at some
\* time, well or with an error, and the event loop resumes the coroutine.
NextRender ==
    \/ \E u \in Customers, m \in MenuMessages :
          Handles(u, m, "show_category") /\ CategoryCalled(1, u, m)
    \/ \E s \in Slots, u \in Customers, data \in ProductButtons :
          ProductCalled(s, u, data)
    \/ \E s \in Slots : Resumed(s)
    \/ NextBatch
    \/ \E s \in Slots : CallReturns(s)

SpecRender ==
    /\ Init
    /\ [][NextRender]_vars
    /\ WF_vars(Resumed(1) \/ NextBatch)
    /\ WF_vars(Resumed(2))

\* Browsing a catalog with a product in the category whose tag has two
\* "_"-separated segments.
FleetProducts ==
    (1 :> Product(CatMain, <<"A">>, 100, "ph1", <<"d">>))
    @@ (2 :> Product(CatTeamTransport, <<"T">>, 250, "ph2", <<"d">>))

InitFleet ==
    /\ products = FleetProducts
    /\ cart = [k \in Users \X ProductIds |-> 0]
    /\ user_data = [u \in Users |-> NoSession]
    /\ image_cache = [k \in {} |-> None]
    /\ fsm_state = [u \in Users |-> "idle"]
    /\ fsm_data = [u \in Users |-> NoData]
    /\ chat = [u \in Users |-> {}]
    /\ calls = NoCalls
    /\ batch = NoBatch
    /\ last = Ran("start", 0, TextMsg(<<>>), <<>>)

NextFleet == \E u \in Customers : Browse(u)

SpecFleet == InitFleet /\ [][NextFleet]_vars

\* -------------------------------------------------------------- properties

\* C1: when a category is rendered while the session records message ids of
\* an earlier render, a deletion is attempted for every one of them before
\* the new unit is sent, and afterwards the session's list of active
\* messages holds only the id of the new unit.
C1_RetractBeforeEmit ==
    [][\A u \in Users :
          LET out == last'.out
              sent == {k \in 1..Len(out) : out[k][1] = "unit"}
          IN  ( /\ last'.h = "show_category"
                /\ last'.u = u
                /\ user_data[u].last_msg_ids # <<>>
                /\ sent # {} )
              => \A k \in sent :
                    /\ \A id \in Range(user_data[u].last_msg_ids) :
                          \E i \in 1..(k - 1) : out[i][1] = "delete" /\ out[i][2] = id
                    /\ user_data'[u].last_msg_ids = <<out[k][2]>>]_vars

\* C2: the item mapping of a user's session is the item set of the list last
\* emitted to the user: a handler that emits a list leaves the mapping equal
\* to the items of the list's buttons, and a handler that emits no list to
\* the user leaves the user's mapping as it was.
C2_MappingIsLastUnit ==
    [][\A u \in Users :
          LET out == last'.out
              lists == {k \in 1..Len(out) :
                           out[k][1] = "unit" /\ out[k][3] \in {"collage", "text"}}
          IN  IF last'.u = u /\ lists # {}
              THEN \A k \in lists :
                      user_data'[u].products
                          = [i \in 1..Len(out[k][5]) |-> CallbackId(out[k][5][i][2])]
              ELSE /\ user_data'[u].products = user_data[u].products
                   /\ user_data'[u].present = user_data[u].present]_vars

\* C3: a category render in which at least one image is there (fetched or
\* cached, whatever the other fetches did) emits a caption that lists all N
\* products of the catalog query in query order, numbered 1..N, and exactly N
\* numbered buttons, the k-th of which carries the id of the k-th product of
\* the query, an id of the session mapping.
C3_CaptionAndButtonsInQueryOrder ==
    \A u \in Users :
        LET out == last.out
            got == {k \in 1..Len(out) : out[k][1] = "fetch" /\ out[k][3] # "miss"}
            lists == {k \in 1..Len(out) : out[k][1] = "unit"}
            query == QueryCategory(user_data[u].category)
        IN  ( /\ last.h \in {"show_category", "back_to_list"}
              /\ last.u = u
              /\ got # {} )
            => \A k \in lists :
                  /\ Len(out[k][4]) = Len(query)
                  /\ Len(out[k][5]) = Len(query)
                  /\ \A i \in 1..Len(query) :
                        /\ out[k][4][i] = <<i, products[query[i]].name,
                                            products[query[i]].price>>
                        /\ out[k][5][i][1] = IntToStr(i)
                        /\ out[k][5][i][2] = <<"product", IntToStr(query[i])>>
                        /\ query[i] \in Range(user_data[u].products)

C3_Witness ==
    /\ last.h = "show_category"
    /\ \E k \in 1..Len(last.out) : last.out[k][1] = "unit" /\ last.out[k][3] = "collage"
    /\ \E k \in 1..Len(last.out) : last.out[k][1] = "fetch" /\ last.out[k][3] = "miss"
    /\ \E k \in 1..Len(last.out) : last.out[k][1] = "fetch" /\ last.out[k][3] = "fetched"

\* C4, as stated: of two fetches of a url made one after the other, the
\* second is served from the cache, so that at most one of them goes to the
\* network.
C4_SecondFetchFromCache ==
    [][\A i \in 1..Len(last.out), j \in 1..Len(last'.out) :
          ( /\ last.out[i][1] = "fetch"
            /\ last'.out[j][1] = "fetch"
            /\ last.out[i][2] = last'.out[j][2] )
          => last'.out[j][3] = "hit"]_vars

\* C4, amended: when a fetch of a url delivered its image (from the network
\* or from the cache), the next fetch of the url is served from the cache
\* and goes to the network no more.
C4_FetchAfterSuccessFromCache ==
    [][\A i \in 1..Len(last.out), j \in 1..Len(last'.out) :
          ( /\ last.out[i][1] = "fetch"
            /\ last.out[i][3] \in {"fetched", "hit"}
            /\ last'.out[j][1] = "fetch"
            /\ last.out[i][2] = last'.out[j][2] )
          => last'.out[j][3] = "hit"]_vars

C4_Witness ==
    /\ \E k \in 1..Len(last.out) : last.out[k][1] = "fetch" /\ last.out[k][3] = "hit"
    /\ \E k \in 1..Len(last.out) : last.out[k][1] = "fetch" /\ last.out[k][3] = "fetched"

\* C5: the press of a product button whose id is not in the user's session
\* mapping (no session, or a button of an earlier list) is answered "not
\* found": nothing is shown or deleted and no state changes.
C5_StaleReferenceNotFound ==
    [][\A u \in Users :
          ( /\ last'.h = "show_product"
            /\ last'.u = u
            /\ \/ ~user_data[u].present
               \/ IntValue(last'.in.text[2]) \notin Range(user_data[u].products) )
          => /\ Len(last'.out) = 1
             /\ last'.out[1][1] = "product_not_found"
             /\ UNCHANGED <<products, cart, user_data, image_cache, fsm_state,
                            fsm_data, chat>>]_vars

C5_Witness ==
    /\ last.h = "show_product"
    /\ Emitted(last.out, "product_not_found")
    /\ user_data[last.u].present
    /\ user_data[last.u].products # <<>>

\* C6: a payment-method input handled with a non-empty cart, the store and
\* the transport working, is answered by a confirmation whose total is the
\* sum of the prices of the cart rows read then; the cart is empty
\* afterwards and the conversation is back in Idle.
C6_OrderTotalAndCartCleared ==
    [][\A u \in Users, m \in PaymentMessages :
          ( /\ last'.h = "process_payment_info"
            /\ CartItems(u) # {}
            /\ Handles(u, m, "process_payment_info")
            /\ ProcessPaymentInfo(u, m, TRUE, TRUE, TRUE) )
          => /\ \A p \in ProductIds : cart'[<<u, p>>] = 0
             /\ fsm_state'[u] = "idle"
             /\ \E k \in 1..Len(last'.out) :
                   /\ last'.out[k][1] = "order_confirmed"
                   /\ last'.out[k][2] = SumPrices(u, CartItems(u))]_vars

\* C7: if the user's cart is empty when the payment-method input is handled,
\* the order is aborted: the user is told that the cart is empty (when the
\* store answers and the transport takes the message), no order confirmation
\* and no operator notification is emitted, the cart store is not modified,
\* and the conversation is back in Idle with its context cleared.
C7_EmptyCartAborts ==
    [][\A u \in Users, m \in PaymentMessages, store_ok, user_ok, admin_ok \in BOOLEAN :
          ( /\ last'.h = "process_payment_info"
            /\ CartItems(u) = {}
            /\ Handles(u, m, "process_payment_info")
            /\ ProcessPaymentInfo(u, m, store_ok, user_ok, admin_ok) )
          => /\ (store_ok /\ user_ok) => Emitted(last'.out, "cart_empty")
             /\ ~Emitted(last'.out, "order_confirmed")
             /\ ~Emitted(last'.out, "notify_admin")
             /\ cart' = cart
             /\ fsm_state'[u] = "idle"
             /\ fsm_data'[u] = NoData]_vars

C7_Witness ==
    /\ last.h = "process_payment_info"
    /\ Emitted(last.out, "cart_empty")
    /\ fsm_state[last.u] = "idle"

\* C8: the checkout flow is entered only with a non-empty cart: a checkout
\* action handled while the user's cart is empty does not move the
\* conversation to AwaitingContact.
C8_CheckoutNeedsItems ==
    \A u \in Users :
        (last.h = "start_checkout" /\ last.u = u /\ CartItems(u) = {})
        => fsm_state[u] # "waiting_phone"

\* C9: process_delete_id takes every whitespace-separated token on its own:
\* the catalog afterwards is the catalog before minus exactly the tokens that
\* are ids of products, each of which is reported deleted by name, and every
\* other token (no integer, or no product of that id) is reported not found,
\* wherever it stands among the valid ones.
C9_BulkDeleteTokenwise ==
    [][\A u \in Users, m \in IdMessages, autoflush \in BOOLEAN :
          ( /\ last'.h = "process_delete_id"
            /\ m.kind = "text"
            /\ Handles(u, m, "process_delete_id")
            /\ ProcessDeleteId(u, m, TRUE, autoflush) )
          => LET ids == Split(m.text)
                 good == {i \in 1..Len(ids) :
                             IntParses(ids[i]) /\ IntValue(ids[i]) \in DOMAIN products}
                 valid == {IntValue(ids[i]) : i \in good}
                 out == last'.out
             IN  /\ DOMAIN products' = DOMAIN products \ valid
                 /\ \A p \in DOMAIN products' : products'[p] = products[p]
                 /\ \A p \in valid :
                       \E k \in 1..Len(out) :
                          /\ out[k][1] = "deleted"
                          /\ products[p].name \in Range(out[k][2])
                 /\ \A i \in (1..Len(ids)) \ good :
                       \E k \in 1..Len(out) :
                          /\ out[k][1] = "not_found"
                          /\ (IF IntParses(ids[i]) THEN IntToStr(IntValue(ids[i]))
                              ELSE ids[i]) \in Range(out[k][2])]_vars

C9_Witness ==
    /\ last.h = "process_delete_id"
    /\ last.in.text = <<"1", " ", "9", "x", " ", "2">>
    /\ Emitted(last.out, "deleted")
    /\ Emitted(last.out, "not_found")
    /\ DOMAIN products \cap {1, 2} = {}

\* C10: an input that is no integer, taken by the price step in
\* AwaitingPrice, and an input that is none of the category labels, taken by
\* the category step in AwaitingCategory, leave the conversation state and
\* the data gathered so far as they are, store nothing, and are answered by
\* the prompt to try again.
C10_BadInputReprompts ==
    [][\A u \in Users :
          LET in == last'.in
              bad_price == /\ fsm_state[u] = "waiting_price"
                           /\ ~(in.kind = "text" /\ IntParses(in.text))
              bad_category == /\ fsm_state[u] = "waiting_category"
                              /\ ~(in.kind = "text" /\ in.text \in DOMAIN AdminCategoryMap)
          IN  ( /\ last'.u = u
                /\ last'.h \in {"process_price", "process_category"}
                /\ bad_price \/ bad_category )
              => /\ fsm_state'[u] = fsm_state[u]
                 /\ fsm_data'[u] = fsm_data[u]
                 /\ products' = products
                 /\ bad_price => Emitted(last'.out, "price_must_be_number")
                 /\ bad_category => Emitted(last'.out, "choose_listed_category")]_vars

\* C11: every step of the add flow takes one type of input only: a message
\* without text that the name step or the description step takes (a photo,
\* say) does not move the conversation on and stores no field.
C11_OneInputTypePerStep ==
    [][\A u \in Users :
          LET in == last'.in
              wrong == \/ fsm_state[u] = "waiting_name" /\ last'.h = "process_name"
                       \/ /\ fsm_state[u] = "waiting_description"
                          /\ last'.h = "process_description"
          IN  (last'.u = u /\ wrong /\ in.kind # "text")
              => /\ fsm_state'[u] = fsm_state[u]
                 /\ fsm_data'[u] = fsm_data[u]]_vars

\* C12: a product is added to the catalog only by the category step that ends
\* an add flow: the steps follow one another in the order photo, name, price,
\* description, category, each field of the step data is written by its own
\* step from the input of that step, and the category step, when the store
\* takes the row, adds exactly one product made of these fields and the
\* category chosen, and clears the context.
C12_ItemCreatedByCompletedFlow ==
    [][LET u == last'.u
           in == last'.in
           new == DOMAIN products' \ DOMAIN products
           before == [waiting_photo |-> "idle", waiting_name |-> "waiting_photo",
                      waiting_price |-> "waiting_name",
                      waiting_description |-> "waiting_price",
                      waiting_category |-> "waiting_description"]
           writer == [photo_id |-> "process_photo", name |-> "process_name",
                      price |-> "process_price", description |-> "process_description"]
           written(k) == /\ k \in DOMAIN fsm_data'[u]
                         /\ k \in DOMAIN fsm_data[u] => fsm_data'[u][k] # fsm_data[u][k]
       IN  /\ new # {} =>
                /\ last'.h = "process_category"
                /\ fsm_state[u] = "waiting_category"
                /\ Cardinality(new) = 1
                /\ \A p \in new :
                      products'[p] = [category |-> AdminCategoryMap[in.text],
                                      name |-> fsm_data[u]["name"],
                                      price |-> fsm_data[u]["price"],
                                      photo_id |-> fsm_data[u]["photo_id"],
                                      description |-> fsm_data[u]["description"]]
                /\ fsm_state'[u] = "idle"
                /\ fsm_data'[u] = NoData
           /\ ( /\ last'.h = "process_category"
                /\ in.kind = "text"
                /\ in.text \in DOMAIN AdminCategoryMap
                /\ Handles(u, in, "process_category")
                /\ ProcessCategory(u, in, TRUE) ) => Cardinality(new) = 1
           /\ \A k \in DOMAIN writer : written(k) => last'.h = writer[k]
           /\ written("photo_id") => fsm_data'[u]["photo_id"] = in.file_id
           /\ written("name") => fsm_data'[u]["name"] = in.text
           /\ written("price") => fsm_data'[u]["price"] = IntValue(in.text)
           /\ written("description") => fsm_data'[u]["description"] = in.text
           /\ \A w \in Users :
                 (fsm_state'[w] # fsm_state[w] /\ fsm_state'[w] \in DOMAIN before)
                 => \/ fsm_state[w] = before[fsm_state'[w]]
                    \/ fsm_state'[w] = "waiting_photo" /\ last'.h = "cmd_add"]_vars

C12_Witness ==
    /\ last.h = "process_category"
    /\ Emitted(last.out, "product_added")
    /\ 3 \in DOMAIN products
    /\ products[3].name = <<"C">>
    /\ products[3].category = CatTeamTransport
    /\ fsm_state[last.u] = "idle"

\* C13: the catalog flows are open to the operator only: whatever the users
\* send, a user who is not the operator is never put in a state of the add
\* flow or of the delete flow, and the catalog changes only in a step that
\* handles an update of the operator.
C13_OperatorGate ==
    [][/\ \A u \in Customers :
             fsm_state'[u] \notin {"waiting_photo", "waiting_name", "waiting_price",
                                   "waiting_description", "waiting_category",
                                   "waiting_id"}
       /\ products' # products => last'.u = ADMIN_ID]_vars

C13_Witness ==
    /\ last.u \in Customers
    /\ last.h \in {"cmd_add", "cmd_delete"}
    /\ Emitted(last.out, "admin_only")
    /\ DOMAIN products # DOMAIN InitProducts

\* C14: for n >= 1 thumbnails the composer uses min(3, n) columns and
\* ceil(n / columns) rows, pastes the image of index i at the corner of the
\* cell in row i div columns and column i mod columns, no two images in one
\* cell, on a canvas of columns x rows cells of the size of the first image
\* (3 x 2 cells for 4 images, 1 x 1 for one); for no image it fails.
C14_CollageGrid ==
    last.h = "create_collage_sync" =>
        LET images == last.in
            n == Len(images)
            r == last.out[1]
        IN  IF n = 0 THEN ~r.ok
            ELSE LET w == images[1][1]
                     h == images[1][2]
                 IN  /\ r.ok
                     /\ r.cols <= 3 /\ r.cols <= n /\ (r.cols = 3 \/ r.cols = n)
                     /\ r.rows * r.cols >= n /\ (r.rows - 1) * r.cols < n
                     /\ r.size = <<r.cols * w, r.rows * h>>
                     /\ \A i \in 0..(n - 1) :
                           \E row \in 0..(r.rows - 1), col \in 0..(r.cols - 1) :
                              /\ i = row * r.cols + col
                              /\ r.boxes[i + 1] = <<col * w, row * h>>
                     /\ \A i, j \in 1..n : r.boxes[i] = r.boxes[j] => i = j
                     /\ n = 4 => r.cols = 3 /\ r.rows = 2
                     /\ n = 1 => r.cols = 1 /\ r.rows = 1

C14_Witness ==
    /\ last.h = "create_collage_sync"
    /\ Len(last.in) = 4
    /\ last.in[1] # last.in[2]
    /\ last.out[1].rows = 2

\* C15: a category render none of whose image fetches delivers an image does
\* not call the composer and sends no collage: unless the transport refuses
\* it, a text list is sent that names all products of the catalog query in
\* query order with one button for each, and the id of that message is the
\* session's list of active messages.
C15_TextFallback ==
    \A u \in Users :
        LET out == last.out
            fetches == {k \in 1..Len(out) : out[k][1] = "fetch"}
            units == {k \in 1..Len(out) : out[k][1] = "unit"}
            query == QueryCategory(user_data[u].category)
        IN  ( /\ last.h \in {"show_category", "back_to_list"}
              /\ last.u = u
              /\ fetches # {}
              /\ \A k \in fetches : out[k][3] = "miss" )
            => /\ ~Emitted(out, "compose")
               /\ units # {} \/ Emitted(out, "try_later")
               /\ \A k \in units :
                     /\ out[k][3] = "text"
                     /\ Len(out[k][4]) = Len(query)
                     /\ Len(out[k][5]) = Len(query)
                     /\ \A i \in 1..Len(query) :
                           /\ out[k][4][i] = <<i, products[query[i]].name,
                                               products[query[i]].price>>
                           /\ out[k][5][i] = <<IntToStr(i), <<"product", IntToStr(query[i])>>>>
                     /\ user_data[u].last_msg_ids = <<out[k][2]>>

C15_Witness ==
    /\ last.h = "show_category"
    /\ \E k \in 1..Len(last.out) : last.out[k][1] = "fetch"
    /\ \A k \in 1..Len(last.out) : last.out[k][1] = "fetch" => last.out[k][3] = "miss"
    /\ \E k \in 1..Len(last.out) : last.out[k][1] = "unit" /\ last.out[k][3] = "text"
    /\ user_data[last.u].last_msg_ids # <<>>

\* C16: within one render every url is retrieved over the network at most
\* once, however many products of the category have that url.
C16_BatchDeduplicated ==
    \A i, j \in 1..Len(last.out) :
        ( /\ last.h \in {"show_category", "back_to_list"}
          /\ i # j
          /\ last.out[i][1] = "fetch"
          /\ last.out[j][1] = "fetch"
          /\ last.out[i][2] = last.out[j][2] )
        => last.out[i][3] = "hit" \/ last.out[j][3] = "hit"

\* C17: in a call of create_combined_message no fetch ends before all
\* fetches of the call are issued as tasks, and the composer runs only when
\* every fetch of the call has ended in a hit, a fetched image or a miss.
C17_FanOutThenBarrier ==
    /\ (\E i \in DOMAIN batch.status : batch.status[i] \in {"hit", "fetched", "miss"})
          => \A i \in DOMAIN batch.status : batch.status[i] # "coroutine"
    /\ batch.phase \in {"composing", "returned_collage", "returned_none"}
          => \A i \in DOMAIN batch.status : batch.status[i] \in {"hit", "fetched", "miss"}

C17_Witness ==
    /\ batch.phase = "composing"
    /\ Len(batch.urls) = 3
    /\ \E i \in DOMAIN batch.status : batch.status[i] = "miss"
    /\ \E i \in DOMAIN batch.status : batch.status[i] = "hit"
    /\ \E i \in DOMAIN batch.status : batch.status[i] = "fetched"

\* C18: the payment step takes a text only: a message without text (a
\* photo, a contact) handled in AwaitingPaymentMethod completes no order: the
\* cart stays as it is, no confirmation goes to the user and no notification
\* to the operator.
C18_PaymentNeedsText ==
    [][\A u \in Users, m \in PaymentMessages :
          ( /\ last'.h = "process_payment_info"
            /\ m.kind # "text"
            /\ Handles(u, m, "process_payment_info")
            /\ ProcessPaymentInfo(u, m, TRUE, TRUE, TRUE) )
          => /\ cart' = cart
             /\ ~Emitted(last'.out, "order_confirmed")
             /\ ~Emitted(last'.out, "notify_admin")]_vars

\* C19: whatever the users add, remove, clear and order, the cart store holds
\* at most one row for a user and a product; adding a product that is in the
\* user's cart leaves the cart as it is and is answered "already in the cart".
C19_OneRowPerUserAndProduct ==
    [][/\ \A k \in DOMAIN cart' : cart'[k] <= 1
       /\ \A u \in Users, data \in AddButtons :
             ( /\ last'.h = "add_to_cart"
               /\ last'.u = u
               /\ last'.in.text = data
               /\ cart[<<u, CallbackId(data)>>] > 0 )
             => /\ cart' = cart
                /\ Emitted(last'.out, "already_in_cart")]_vars

C19_Witness ==
    /\ last.h = "add_to_cart"
    /\ Emitted(last.out, "already_in_cart")
    /\ Cardinality(CartItems(last.u)) = 2

\* C20: the context is cleared at every end of a flow: when the id step of
\* the delete flow, or the category step of the add flow given a listed
\* category, has handled an input, the user's state is Idle and the step data
\* is empty, whether the store worked or raised.
C20_ContextClearedAtEnd ==
    [][\A u \in Users :
          ( /\ last'.u = u
            /\ \/ last'.h = "process_delete_id"
               \/ /\ last'.h = "process_category"
                  /\ last'.in.kind = "text"
                  /\ last'.in.text \in DOMAIN AdminCategoryMap )
          => /\ fsm_state'[u] = "idle"
             /\ fsm_data'[u] = NoData]_vars

\* C24: a checkout that clears the cart notifies the operator: whenever the
\* payment step empties a non-empty cart while the store works and the
\* transport takes a message to the operator, the order notification is
\* emitted, whether or not the confirmation to the user could be sent.
C24_ClearedCartNotifiesOperator ==
    [][\A u \in Users, m \in PaymentMessages, user_ok \in BOOLEAN :
          ( /\ last'.h = "process_payment_info"
            /\ CartItems(u) # {}
            /\ Handles(u, m, "process_payment_info")
            /\ ProcessPaymentInfo(u, m, TRUE, user_ok, TRUE)
            /\ \A p \in ProductIds : cart'[<<u, p>>] = 0 )
          => Emitted(last'.out, "notify_admin")]_vars

\* C25: every cart entry refers to an item of the catalog: whatever add
\* buttons are pressed and whatever the operator deletes, no user has a Cart
\* row for a product id the catalog does not hold.
C25_CartRowsReferToCatalog ==
    \A u \in Users, p \in ProductIds :
        cart[<<u, p>>] > 0 => p \in DOMAIN products

\* C26: the category of the back-to-list button round-trips: when a user
\* presses the back-to-list button of the item view just shown to them, the
\* category the handler decodes from the button is the category of the user's
\* session, the navigation check passes and the session stays in that
\* category.
C26_BackToListRoundTrip ==
    [][\A u \in Customers :
          ( /\ last'.h = "back_to_list"
            /\ last'.u = u
            /\ last.h = "show_product"
            /\ last.u = u
            /\ \E k \in 1..Len(last.out) :
                  /\ last.out[k][1] = "unit"
                  /\ last'.in.text = last.out[k][5][1] )
          => /\ LastSegment(last'.in.text) = user_data[u].category
             /\ ~Emitted(last'.out, "navigation_error")
             /\ user_data'[u].category = user_data[u].category]_vars

\* C22: concurrent fetches never corrupt the image cache.  In every step of
\* every interleaving of download_image tasks, with urls repeated among them:
\* no url leaves the cache; an entry appears or changes only in the step of a
\* task of that url whose retrieval had been answered and read and whose
\* decoding succeeds; every cached value is a thumbnail of its own key; and a
\* task that stores its image replaces whatever the url had, so that of two
\* overlapping fetches of a url the entry is the one written last.
C22_CacheNeverCorrupted ==
    [][/\ DOMAIN image_cache \subseteq DOMAIN image_cache'
       /\ \A k \in DOMAIN image_cache' :
             /\ image_cache'[k][1] = "thumbnail"
             /\ image_cache'[k][2] = k
             /\ (k \notin DOMAIN image_cache \/ image_cache'[k] # image_cache[k])
                => \E i \in DOMAIN batch.urls :
                      /\ batch.urls[i] = k
                      /\ batch.status[i] = "decoding"
                      /\ batch'.status[i] = "fetched"
                      /\ image_cache'[k] = ThumbnailBy(k, i)
       /\ \A i \in DOMAIN batch.urls :
             (batch.status[i] = "decoding" /\ batch'.status[i] = "fetched")
             => image_cache'[batch.urls[i]] = ThumbnailBy(batch.urls[i], i)]_vars

\* Two fetches of one url overlapped and both stored their image; the entry
\* is that of the earlier task, which was the later to write.
C22_Witness ==
    \E i, j \in DOMAIN batch.urls :
        /\ i < j
        /\ batch.urls[i] = batch.urls[j]
        /\ batch.status[i] = "fetched"
        /\ batch.status[j] = "fetched"
        /\ image_cache[batch.urls[i]] = ThumbnailBy(batch.urls[i], i)

\* C23 as claimed: a show_category call for a category with products that
\* has ended has emitted exactly one of the collage unit, the text list of
\* the fallback, or the failure message.
C23_RenderEmitsExactlyOne ==
    \A s \in Slots :
        ( /\ calls[s].h = "show_category"
          /\ calls[s].pc = "done"
          /\ calls[s].ids # <<>> )
        => Cardinality({k \in 1..Len(calls[s].out) :
                           calls[s].out[k][1] \in {"unit", "try_later"}}) = 1

\* C23 as amended: when every awaited operation of a show_category call ends
\* at some time, well or with an error, the call ends; it has then emitted
\* exactly one of the collage unit, the text list of the fallback and the
\* failure message, except that it has emitted none of them when the category
\* is empty and its "no products" notice was sent, or when the transport
\* refused the failure message itself.
C23_RenderTerminates ==
    /\ (calls[1].h = "show_category") ~> (calls[1].pc = "done")
    /\ [](\A s \in Slots :
            (calls[s].h = "show_category" /\ calls[s].pc = "done")
            => LET out == calls[s].out
                   n == Cardinality({k \in 1..Len(out) :
                                        out[k][1] \in {"unit", "try_later"}})
               IN  IF Emitted(out, "no_products") \/ Emitted(out, "raised")
                   THEN n = 0 ELSE n = 1)

\* A call has ended with the text list, after its fetches ended and no image
\* was left.
C23_Witness ==
    /\ calls[1].h = "show_category"
    /\ calls[1].pc = "done"
    /\ Emitted(calls[1].out, "collage_failed")
    /\ \E k \in 1..Len(calls[1].out) :
          /\ calls[1].out[k][1] = "unit"
          /\ calls[1].out[k][3] = "text"

\* C21: no unit is left on screen untracked by two handlers of one user that
\* ran interleaved.  Stated for two show_product coroutines: when both have
\* ended, each having sent its item view and none of their deletes having
\* failed, every message they sent that is still on screen is in the
\* last_msg_ids of the user's session.
C21_NoUntrackedUnitAfterRace ==
    \A u \in Customers :
        ( /\ \A s \in Slots :
                /\ calls[s].h = "show_product"
                /\ calls[s].u = u
                /\ calls[s].pc = "done"
                /\ Emitted(calls[s].out, "unit")
                /\ ~Emitted(calls[s].out, "delete_failed") )
        => \A s \in Slots :
              \A k \in DOMAIN calls[s].out :
                 (calls[s].out[k][1] = "unit" /\ calls[s].out[k][2] \in chat[u])
                 => calls[s].out[k][2] \in Range(user_data[u].last_msg_ids)

====
